---- MODULE Spec2Model ----
(***************************************************************************)
(* State-machine model of the TradingView collection pipeline:             *)
(*   - the admission control of the backtest API (api/server.py),          *)
(*   - the resumable batch orchestrator (scripts/_archive/run_pipeline.py),*)
(*   - the content-hash ledger of the v6 scraper and of the converter      *)
(*     (scripts/batch_scraper_v6.py, framework/pine_converter.py).         *)
(***************************************************************************)
EXTENDS Integers, Sequences, FiniteSets, TLC

VARIABLES
    \* api/server.py
    active_count,    \* _active_count
    hourly_counts,   \* _hourly_counts: client -> list of admission timestamps
    now,             \* the value time.time() returns
    running,         \* coroutines of run_backtest suspended at each await
    resp,            \* the last event of the server: a response, or a clock tick
    full_phase,      \* observer: rejected at the ceiling (1), one run completed (2), admitted (3)
    \* scripts/_archive/run_pipeline.py
    bt,              \* backtests/<category>/<stem>.py: what the file holds, or "absent"
    bt_error,        \* the ERROR line of backtests/<category>/<stem>.py, if it has one
    state_file,      \* results/.pipeline_state.json: whether it exists, the lists it holds
    proc,            \* the orchestrator processes: position in main() and locals
    prev,            \* observer: arguments and end of the sweep that ended last
    term_count,      \* observer: item -> number of terminal records saved for it
    \* scripts/batch_scraper_v6.py, framework/pine_converter.py
    pine_files,      \* pinescript/<category>/<slug>.pine: the code it holds, or "absent"
    v6_hashes,       \* results/.script_hashes_v6.json: slug -> hash
    conv_hashes,     \* results/.script_hashes.json: script name -> hash
    transformed,     \* observer: the .pine files convert_pine_to_python was called on
    last_scrape,     \* the status scrape_category reported for the last script
    last_convert,    \* what the last run of the converter returned and exited with
    scrape_run,      \* scrape_categories and the scrape_category it has called: their locals
    scraper_state,   \* the scraper's STATE_FILE: the scraped list and total_scraped
    \* api/server.py: the admitted /backtest requests, stage by stage
    req,             \* the executions of run_backtest: position and locals
    custom_file,     \* backtests/custom/<script_name>.py: the code it holds, or "absent"
    response,        \* what each execution answered, and what became of its sync task
    \* api/server.py: the arithmetic of the composite score, in binary64
    calc             \* one evaluation of server.py:260-295: its input and its values

admVars == <<active_count, hourly_counts, now, running, resp, full_phase>>

sweepVars == <<bt, bt_error, state_file, proc, prev, term_count>>

dedupVars ==
    <<pine_files, v6_hashes, conv_hashes, transformed, last_scrape, last_convert,
      scrape_run, scraper_state>>

reqVars == <<req, custom_file, response>>

calcVars == <<calc>>

vars == <<admVars, sweepVars, dedupVars, reqVars, calcVars>>

-----------------------------------------------------------------------------
(* api/server.py: the rate limiter and the /backtest handler               *)

\* The ceilings N and M of the admission control.  server.py:61-62 sets them
\* to 5 and 20; the model instantiates them with small values.
MAX_CONCURRENT == 2
MAX_PER_HOUR == 2

\* server.py:85  hour_ago = now - 3600
WINDOW == 3600

\* Values of request.client.host / x-forwarded-for
Clients == {"ip1", "ip2"}

\* The values of time.time() at which the model lets something happen
Instants == {0, 1, WINDOW - 1, WINDOW, WINDOW + 1}

\* The awaits of run_backtest, in order
Stages == {"scrape", "convert", "backtest"}

NoRun == [s \in Stages |-> 0]

InFlight == running["scrape"] + running["convert"] + running["backtest"]

\* A ceiling check that is off by one
ConcurrencyExceeded_OffByOne == active_count > MAX_CONCURRENT

\* server.py:78
ConcurrencyExceeded == active_count >= MAX_CONCURRENT

\* A window that never evicts
Recent_NoEviction(ip) == hourly_counts[ip]

\* server.py:86
Recent(ip) == SelectSeq(hourly_counts[ip], LAMBDA t : t > now - WINDOW)

\* server.py:88
RateExceeded(ip) == Len(Recent(ip)) >= MAX_PER_HOUR

\* A limiter that records the request before it checks the client's rate
check_rate_limit_CountFirst(ip) ==
    IF ConcurrencyExceeded
    THEN [verdict |-> "concurrent", kept |-> hourly_counts[ip]]
    ELSE IF RateExceeded(ip)
         THEN [verdict |-> "rate", kept |-> Append(Recent(ip), now)]
         ELSE [verdict |-> "admitted", kept |-> Append(Recent(ip), now)]

\* server.py:75-94: the verdict, and the client's list as the call leaves it
check_rate_limit(ip) ==
    IF ConcurrencyExceeded
    THEN [verdict |-> "concurrent", kept |-> hourly_counts[ip]]
    ELSE IF RateExceeded(ip)
         THEN [verdict |-> "rate", kept |-> Recent(ip)]
         ELSE [verdict |-> "admitted", kept |-> Append(Recent(ip), now)]

\* server.py:179
Acquired == active_count + 1

\* A release that only the success path reaches
Released_OnSuccessOnly(outcome) ==
    IF outcome = "ok" THEN active_count - 1 ELSE active_count

\* server.py:301-302: the finally clause, whatever ended the run
Released(outcome) == active_count - 1

Event(op, outcome, ip, had, evicted) ==
    [op |-> op, outcome |-> outcome, ip |-> ip, had |-> had, evicted |-> evicted]

Finish(outcome) == Event("finish", outcome, "-", 0, 0)

\* The observer of the scenario "rejected at the ceiling, one run completes,
\* the next submission is admitted"
PhaseAfterSubmit(verdict) ==
    IF verdict = "concurrent" THEN 1
    ELSE IF verdict = "admitted" /\ full_phase = 2 THEN 3
    ELSE IF full_phase = 3 THEN 0
    ELSE full_phase

PhaseAfterFinish ==
    IF full_phase = 1 THEN 2 ELSE 0

\* server.py:160-179: a request arrives and runs up to its first await
Submit(ip, url_ok) ==
    /\ IF ~url_ok
       THEN /\ resp' = Event("submit", "bad_url", ip, Len(hourly_counts[ip]), 0)
            /\ full_phase' = PhaseAfterSubmit("bad_url")
            /\ UNCHANGED <<active_count, hourly_counts, now, running>>
       ELSE LET r == check_rate_limit(ip)
                had == Len(hourly_counts[ip])
                evicted == IF r.verdict = "concurrent" THEN 0 ELSE had - Len(Recent(ip))
            IN /\ hourly_counts' = [hourly_counts EXCEPT ![ip] = r.kept]
               /\ resp' = Event("submit", r.verdict, ip, had, evicted)
               /\ full_phase' = PhaseAfterSubmit(r.verdict)
               /\ IF r.verdict = "admitted"
                  THEN /\ active_count' = Acquired
                       /\ running' = [running EXCEPT !["scrape"] = @ + 1]
                  ELSE UNCHANGED <<active_count, running>>
               /\ UNCHANGED now
    /\ UNCHANGED <<sweepVars, dedupVars, reqVars, calcVars>>

\* server.py:184-191, 301-302: scrape_single_url returns or raises
ScrapeDone(ok) ==
    /\ running["scrape"] > 0
    /\ IF ok
       THEN /\ running' = [running EXCEPT !["scrape"] = @ - 1, !["convert"] = @ + 1]
            /\ UNCHANGED <<active_count, resp, full_phase>>
       ELSE /\ running' = [running EXCEPT !["scrape"] = @ - 1]
            /\ active_count' = Released("fetch_error")
            /\ resp' = Finish("fetch_error")
            /\ full_phase' = PhaseAfterFinish
    /\ UNCHANGED <<hourly_counts, now>>
    /\ UNCHANGED <<sweepVars, dedupVars, reqVars, calcVars>>

\* server.py:193-204, 301-302: convert_pine_to_python returns or raises
ConvertDone(ok) ==
    /\ running["convert"] > 0
    /\ IF ok
       THEN /\ running' = [running EXCEPT !["convert"] = @ - 1, !["backtest"] = @ + 1]
            /\ UNCHANGED <<active_count, resp, full_phase>>
       ELSE /\ running' = [running EXCEPT !["convert"] = @ - 1]
            /\ active_count' = Released("transform_error")
            /\ resp' = Finish("transform_error")
            /\ full_phase' = PhaseAfterFinish
    /\ UNCHANGED <<hourly_counts, now>>
    /\ UNCHANGED <<sweepVars, dedupVars, reqVars, calcVars>>

\* server.py:217-302: run_multi_ticker_backtest returns or raises (the
\* handler turns an exception into per-ticker errors), the response is built
BacktestDone ==
    /\ running["backtest"] > 0
    /\ running' = [running EXCEPT !["backtest"] = @ - 1]
    /\ active_count' = Released("ok")
    /\ resp' = Finish("ok")
    /\ full_phase' = PhaseAfterFinish
    /\ UNCHANGED <<hourly_counts, now>>
    /\ UNCHANGED <<sweepVars, dedupVars, reqVars, calcVars>>

\* time.time() moves on
Tick(t) ==
    /\ t > now
    /\ now' = t
    /\ UNCHANGED <<active_count, hourly_counts, running, resp, full_phase>>
    /\ UNCHANGED <<sweepVars, dedupVars, reqVars, calcVars>>

AdmInit ==
    /\ active_count = 0
    /\ hourly_counts = [ip \in Clients |-> <<>>]
    /\ now = 0
    /\ running = NoRun
    /\ resp = Event("start", "-", "-", 0, 0)
    /\ full_phase = 0

AdmNext ==
    \/ \E ip \in Clients, url_ok \in BOOLEAN : Submit(ip, url_ok)
    \/ \E ok \in BOOLEAN : ScrapeDone(ok)
    \/ \E ok \in BOOLEAN : ConvertDone(ok)
    \/ BacktestDone
    \/ \E t \in Instants : Tick(t)

-----------------------------------------------------------------------------
(* scripts/_archive/run_pipeline.py: the resumable batch orchestrator      *)

\* How many items --limit may name (0 = all)
MaxLimit == 1

\* How many records the ledger may hold when a --rerun sweep is started
MaxRecords == 2

Procs == {1, 2}

Item(cat, stem) == [cat |-> cat, stem |-> stem]

\* The .pine files under pinescript/, in the order get_unprocessed_pines
\* walks them: CATEGORIES order, sorted by name within a category
AllPines ==
    << Item("popular", "alpha"), Item("popular", "beta"), Item("top", "alpha") >>

Items == {AllPines[k] : k \in 1..Len(AllPines)}

NoItem == Item("-", "-")

\* pine_file.read_text()
PineCode(i) ==
    IF i = Item("popular", "alpha") THEN "src_a"
    ELSE IF i = Item("popular", "beta") THEN "src_b"
    ELSE "src_c"

\* --category: "none" when the option is not given
CategoryArgs == {"none", "popular", "top"}

\* What the LLM call can fail with
Errors == {"timeout", "bad_output"}

\* pine_converter.py:286-287: the exception convert_pine_to_python raises
LLMError(e) == <<"LLM API call failed", e>>

\* No exception, no previous_error (Python's None)
NoError == <<>>

\* run_pipeline.py:39: the ledger a first run starts from
EmptyState == [processed |-> <<>>, failed |-> <<>>]

\* results/.pipeline_state.json does not exist
NoFile == [exists |-> FALSE, processed |-> <<>>, failed |-> <<>>]

\* run_pipeline.py:42-45: the file save_pipeline_state writes
Saved(st) == [exists |-> TRUE, processed |-> st.processed, failed |-> st.failed]

RangeOf(seq) == {seq[k] : k \in 1..Len(seq)}

\* run_pipeline.py:36-39
load_pipeline_state ==
    IF state_file.exists
    THEN [processed |-> state_file.processed, failed |-> state_file.failed]
    ELSE EmptyState

\* run_pipeline.py:48-68
get_unprocessed_pines(category, rerun) ==
    SelectSeq(AllPines,
              LAMBDA i : /\ (category = "none" \/ i.cat = category)
                         /\ (rerun \/ bt[i] = "absent"))

\* run_pipeline.py:218-219
Limited(pines, limit) ==
    IF limit > 0 /\ limit < Len(pines) THEN SubSeq(pines, 1, limit) ELSE pines

\* A resume filter that skips nothing
NotAlreadyDone_None(pines, st, rerun) == pines

\* run_pipeline.py:221-225
NotAlreadyDone(pines, st, rerun) ==
    IF rerun THEN pines
    ELSE SelectSeq(pines,
                   LAMBDA i : i.stem \notin (RangeOf(st.processed) \cup RangeOf(st.failed)))

\* run_pipeline.py:216-225
Selected(category, limit, rerun, st) ==
    NotAlreadyDone(Limited(get_unprocessed_pines(category, rerun), limit), st, rerun)

\* A retry that does not pass the first error on
RetryHint_Dropped(first_error) == NoError

\* run_pipeline.py:98  previous_error=first_error
RetryHint(first_error) == first_error

\* A retry loop that goes round once more
AfterSecondFailure_Again == "convert2"

\* run_pipeline.py:99-106: the second failure ends the item
AfterSecondFailure == "write_error"

\* run_pipeline.py:101: the text _write_error_backtest is given, with the
\* second exception in it as it was raised
ConversionFailed(e2) == <<"Conversion failed after retry", e2>>

\* data_fetcher.py:7-11: the keys of TICKERS, in the order of the dict
TickerKeys == <<"SPY", "BTC", "QQQ">>

Tickers == {TickerKeys[k] : k \in 1..Len(TickerKeys)}

\* What fetching the data and running the strategy can come to for one ticker
TickerOutcomes == [Tickers -> {"ok", "error"}]

\* One item of multi_stats: error is "" when the dict has no "error" key
Entry(ticker, error) == [ticker |-> ticker, error |-> error]

RECURSIVE EngineLoop_StopAtError(_, _), EngineLoop(_, _)

\* A loop that gives up at the first ticker that fails
EngineLoop_StopAtError(k, outcome) ==
    IF k > Len(TickerKeys) \/ outcome[TickerKeys[k]] = "error"
    THEN <<>>
    ELSE <<Entry(TickerKeys[k], "")>> \o EngineLoop_StopAtError(k + 1, outcome)

\* backtest_engine.py:90-100: one entry per ticker; an exception of
\* fetch_ohlcv, or the error dict run_backtest returns, becomes the entry
EngineLoop(k, outcome) ==
    IF k > Len(TickerKeys)
    THEN <<>>
    ELSE <<Entry(TickerKeys[k],
                 IF outcome[TickerKeys[k]] = "ok" THEN "" ELSE "ticker_failed")>>
         \o EngineLoop(k + 1, outcome)

\* run_pipeline.py:120-124, server.py:225-229: the entries the caller makes
\* up when run_multi_ticker_backtest raises
FallbackStats(e) == <<Entry("SPY", e), Entry("BTC", e), Entry("QQQ", e)>>

\* backtest_engine.py:87-102 under the try of its caller (run_pipeline.py:
\* 115-124, server.py:220-229): load_strategy_from_file raises, or the loop
\* runs over every ticker
run_multi_ticker_backtest(loaded, outcome) ==
    IF loaded THEN EngineLoop(1, outcome) ELSE FallbackStats("load_failed")

HasSuccess(multi_stats) ==
    \E k \in 1..Len(multi_stats) : multi_stats[k].error = ""

\* Side effects that fail the item they follow
ReturnAfterSideEffects_Escalate(synced, notified) ==
    IF synced /\ notified THEN "ok" ELSE "exception"

\* run_pipeline.py:137-168: the sync and the notifications sit in try/except,
\* process_single_pine returns True whatever became of them
ReturnAfterSideEffects(synced, notified) == "ok"

NoSideEffects == [synced |-> TRUE, notified |-> TRUE, attempted |-> FALSE]

Call(pine_code, previous_error, raised) ==
    [pine_code |-> pine_code, previous_error |-> previous_error, raised |-> raised]

IdleProc ==
    [pc |-> "idle", category |-> "none", limit |-> 0, rerun |-> FALSE,
     mem |-> EmptyState, pines |-> <<>>, idx |-> 0, skipped |-> 0,
     success |-> 0, failed |-> 0,
     calls |-> <<>>, outcome |-> "-", repeat |-> FALSE,
     multi_stats |-> <<>>, side |-> NoSideEffects]

Cur(p) == proc[p].pines[proc[p].idx]

\* Observer: whether a sweep of this category follows a sweep of the same
\* category that ran to its end without --limit
Repeats(category) ==
    prev.how = "completed" /\ prev.category = category /\ prev.limit = 0

Ended(p, how, selected, repeat) ==
    [category |-> proc[p].category, limit |-> proc[p].limit, how |-> how,
     selected |-> selected, repeat |-> repeat]

\* run_pipeline.py:189-207: the arguments are parsed, the ledger is loaded
Start(p, category, limit, rerun) ==
    /\ proc[p].pc \in {"idle", "done"}
    /\ proc' = [proc EXCEPT ![p] =
                  [IdleProc EXCEPT !.pc = "fetch", !.category = category,
                                   !.limit = limit, !.rerun = rerun,
                                   !.mem = load_pipeline_state]]
    /\ UNCHANGED <<bt, bt_error, state_file, prev, term_count>>
    /\ UNCHANGED <<admVars, dedupVars, reqVars, calcVars>>

\* run_pipeline.py:209-234: market data is fetched, the items are selected
Select(p, fetched) ==
    /\ proc[p].pc = "fetch"
    /\ IF ~fetched
       THEN /\ proc' = [proc EXCEPT ![p] = IdleProc]
            /\ prev' = Ended(p, "exited", 0, FALSE)
       ELSE LET a == proc[p]
                found == Limited(get_unprocessed_pines(a.category, a.rerun), a.limit)
                pines == NotAlreadyDone(found, a.mem, a.rerun)
            IN IF pines = <<>>
               THEN /\ proc' = [proc EXCEPT ![p] = [IdleProc EXCEPT !.pc = "done"]]
                    /\ prev' = Ended(p, "completed", 0, Repeats(a.category))
               ELSE /\ proc' = [proc EXCEPT ![p].pines = pines, ![p].idx = 1,
                                            ![p].repeat = Repeats(a.category),
                                            ![p].skipped = Len(found) - Len(pines),
                                            ![p].pc = "read"]
                    /\ UNCHANGED prev
    /\ UNCHANGED <<bt, bt_error, state_file, term_count>>
    /\ UNCHANGED <<admVars, dedupVars, reqVars, calcVars>>

\* run_pipeline.py:85-87: the .pine file is read; an error here reaches the
\* except clause of main (lines 251-255)
Read(p, ok) ==
    /\ proc[p].pc = "read"
    /\ proc' = [proc EXCEPT ![p].calls = <<>>,
                            ![p].pc = IF ok THEN "convert1" ELSE "record",
                            ![p].outcome = IF ok THEN "-" ELSE "exception"]
    /\ UNCHANGED <<bt, bt_error, state_file, prev, term_count>>
    /\ UNCHANGED <<admVars, dedupVars, reqVars, calcVars>>

\* run_pipeline.py:91-96: the first call of the transform stage
Convert1(p, result) ==
    /\ proc[p].pc = "convert1"
    /\ LET raised == IF result = "ok" THEN NoError ELSE LLMError(result)
       IN proc' = [proc EXCEPT
                     ![p].calls = Append(@, Call(PineCode(Cur(p)), NoError, raised)),
                     ![p].pc = IF result = "ok" THEN "write_bt" ELSE "convert2"]
    /\ UNCHANGED <<bt, bt_error, state_file, prev, term_count>>
    /\ UNCHANGED <<admVars, dedupVars, reqVars, calcVars>>

\* run_pipeline.py:97-100: the retry, with the first error as the hint
Convert2(p, result) ==
    /\ proc[p].pc = "convert2"
    /\ LET raised == IF result = "ok" THEN NoError ELSE LLMError(result)
           first_error == proc[p].calls[1].raised
       IN proc' = [proc EXCEPT
                     ![p].calls = Append(@, Call(PineCode(Cur(p)),
                                                 RetryHint(first_error), raised)),
                     ![p].pc = IF result = "ok" THEN "write_bt" ELSE AfterSecondFailure]
    /\ UNCHANGED <<bt, bt_error, state_file, prev, term_count>>
    /\ UNCHANGED <<admVars, dedupVars, reqVars, calcVars>>

\* run_pipeline.py:101-106: the placeholder file is written, the errors are
\* logged to the CSV (which may raise), the item is reported as not ok
WriteError(p, logged) ==
    /\ proc[p].pc = "write_error"
    /\ bt' = [bt EXCEPT ![Cur(p)] = "error"]
    /\ bt_error' = [bt_error EXCEPT ![Cur(p)] = ConversionFailed(proc[p].calls[2].raised)]
    /\ proc' = [proc EXCEPT ![p].pc = "record",
                            ![p].outcome = IF logged THEN "failed" ELSE "exception"]
    /\ UNCHANGED <<state_file, prev, term_count>>
    /\ UNCHANGED <<admVars, dedupVars, reqVars, calcVars>>

\* run_pipeline.py:108-111: the backtest file is written, marked "Running..."
WriteBt(p) ==
    /\ proc[p].pc = "write_bt"
    /\ bt' = [bt EXCEPT ![Cur(p)] = "running"]
    /\ bt_error' = [bt_error EXCEPT ![Cur(p)] = NoError]
    /\ proc' = [proc EXCEPT ![p].pc = "backtest"]
    /\ UNCHANGED <<state_file, prev, term_count>>
    /\ UNCHANGED <<admVars, dedupVars, reqVars, calcVars>>

\* run_pipeline.py:113-124: the evaluate stage; an exception becomes one
\* error entry per ticker
Backtest(p, loaded, outcome) ==
    /\ proc[p].pc = "backtest"
    /\ ~loaded => outcome = [t \in Tickers |-> "error"]
    /\ proc' = [proc EXCEPT ![p].pc = "finalize",
                            ![p].multi_stats = run_multi_ticker_backtest(loaded, outcome)]
    /\ UNCHANGED <<bt, bt_error, state_file, prev, term_count>>
    /\ UNCHANGED <<admVars, dedupVars, reqVars, calcVars>>

\* run_pipeline.py:126-168: the file is rewritten with the statistics, the
\* results are logged to the CSV (which may raise), sync and notifications
\* are best effort
Finalize(p, logged, synced, notified) ==
    /\ proc[p].pc = "finalize"
    /\ ~logged => (synced /\ notified)
    /\ ~HasSuccess(proc[p].multi_stats) => notified
    /\ bt' = [bt EXCEPT ![Cur(p)] = "stats"]
    /\ UNCHANGED bt_error
    /\ proc' = [proc EXCEPT ![p].pc = "record",
                            ![p].side = [synced |-> synced, notified |-> notified,
                                         attempted |-> logged],
                            ![p].outcome = IF logged
                                           THEN ReturnAfterSideEffects(synced, notified)
                                           ELSE "exception"]
    /\ UNCHANGED <<state_file, prev, term_count>>
    /\ UNCHANGED <<admVars, dedupVars, reqVars, calcVars>>

\* A loop whose except clause only prints the error
Recorded_ExceptionLost(st, stem, outcome) ==
    IF outcome = "ok"
    THEN [st EXCEPT !.processed = Append(@, stem)]
    ELSE IF outcome = "exception"
    THEN st
    ELSE [st EXCEPT !.failed = Append(@, stem)]

\* run_pipeline.py:245-255
Recorded(st, stem, outcome) ==
    IF outcome = "ok"
    THEN [st EXCEPT !.processed = Append(@, stem)]
    ELSE [st EXCEPT !.failed = Append(@, stem)]

\* run_pipeline.py:243-255: the outcome of process_single_pine (or the
\* exception it raised) is counted and appended to the in-memory ledger
Record(p) ==
    /\ proc[p].pc = "record"
    /\ proc' = [proc EXCEPT ![p].mem = Recorded(@, Cur(p).stem, proc[p].outcome),
                            ![p].success = IF proc[p].outcome = "ok" THEN @ + 1 ELSE @,
                            ![p].failed = IF proc[p].outcome = "ok" THEN @ ELSE @ + 1,
                            ![p].multi_stats = <<>>,
                            ![p].side = NoSideEffects,
                            ![p].pc = "save"]
    /\ UNCHANGED <<bt, bt_error, state_file, prev, term_count>>
    /\ UNCHANGED <<admVars, dedupVars, reqVars, calcVars>>

\* run_pipeline.py:256 and 258-275: the whole in-memory ledger is written to
\* the file, the loop moves on to the next item or the sweep ends
Save(p) ==
    /\ proc[p].pc = "save"
    /\ LET a == proc[p]
       IN /\ state_file' = Saved(a.mem)
          /\ term_count' = [term_count EXCEPT ![Cur(p)] = @ + 1]
          /\ IF a.idx < Len(a.pines)
             THEN /\ proc' = [proc EXCEPT ![p].idx = @ + 1,
                                          ![p].calls = <<>>, ![p].outcome = "-",
                                          ![p].pc = "read"]
                  /\ UNCHANGED prev
             ELSE /\ proc' = [proc EXCEPT ![p] = [IdleProc EXCEPT !.pc = "done"]]
                  /\ prev' = Ended(p, "completed", Len(a.pines), a.repeat)
    /\ UNCHANGED <<bt, bt_error>>
    /\ UNCHANGED <<admVars, dedupVars, reqVars, calcVars>>

\* The process is killed (Ctrl-C, a crash): its locals are lost
Interrupt(p) ==
    /\ proc[p].pc \notin {"idle", "done"}
    /\ proc' = [proc EXCEPT ![p] = IdleProc]
    /\ prev' = Ended(p, "interrupted", Len(proc[p].pines), proc[p].repeat)
    /\ UNCHANGED <<bt, bt_error, state_file, term_count>>
    /\ UNCHANGED <<admVars, dedupVars, reqVars, calcVars>>

SweepInit ==
    /\ bt = [i \in Items |-> "absent"]
    /\ bt_error = [i \in Items |-> NoError]
    /\ state_file = NoFile
    /\ proc = [p \in Procs |-> IdleProc]
    /\ prev = [category |-> "none", limit |-> 0, how |-> "never",
               selected |-> 0, repeat |-> FALSE]
    /\ term_count = [i \in Items |-> 0]

Step(p) ==
    \/ \E fetched \in BOOLEAN : Select(p, fetched)
    \/ \E ok \in BOOLEAN : Read(p, ok)
    \/ \E result \in {"ok"} \cup Errors : Convert1(p, result)
    \/ \E result \in {"ok"} \cup Errors : Convert2(p, result)
    \/ \E logged \in BOOLEAN : WriteError(p, logged)
    \/ WriteBt(p)
    \/ \E loaded \in BOOLEAN, outcome \in TickerOutcomes : Backtest(p, loaded, outcome)
    \/ \E logged, synced, notified \in BOOLEAN : Finalize(p, logged, synced, notified)
    \/ Record(p)
    \/ Save(p)

\* One orchestrator, started again and again without --rerun, killed at will
SweepNext ==
    \/ \E category \in CategoryArgs, limit \in 0..MaxLimit :
          Start(1, category, limit, FALSE)
    \/ Step(1)
    \/ Interrupt(1)

\* run_pipeline.py:189-207: a sweep with any arguments, --rerun included
StartSweep(category, limit, rerun) ==
    /\ rerun => Len(state_file.processed) + Len(state_file.failed) < MaxRecords
    /\ Start(1, category, limit, rerun)

\* One orchestrator, run to its end again and again, with or without --rerun
ForceNext ==
    \/ \E category \in CategoryArgs, limit \in 0..MaxLimit, rerun \in BOOLEAN :
          StartSweep(category, limit, rerun)
    \/ Step(1)

\* Two orchestrators at the same time, each given a category of its own
OwnCategory(p) == IF p = 1 THEN "popular" ELSE "top"

StartInstance(p) ==
    /\ proc[p].pc = "idle"
    /\ Start(p, OwnCategory(p), 0, FALSE)

ConcurrentNext ==
    \E p \in Procs : StartInstance(p) \/ Step(p)

-----------------------------------------------------------------------------
(* scripts/batch_scraper_v6.py and framework/pine_converter.py: the hash   *)
(* ledgers                                                                 *)

\* Categories and slugs of the scripts the site lists
ScrapeCats == {"popular", "top"}

Slugs == {"alpha", "beta"}

PineSlots == {Item(c, g) : c \in ScrapeCats, g \in Slugs}

\* What extract_pine_source can return for an open-source script
Codes == {"code_x", "code_y"}

\* batch_scraper_v6.py:103-105, pine_converter.py:305-307: SHA-256 of the
\* code, one digest per code
compute_content_hash(code) == IF code = "code_x" THEN "sha_x" ELSE "sha_y"

NoHashes == [g \in Slugs |-> "none"]

\* batch_scraper_v6.py:108-113, pine_converter.py:310-313:
\* content_hash in hashes.values()
is_duplicate(code, hashes) ==
    \E g \in Slugs : hashes[g] = compute_content_hash(code)

\* batch_scraper_v6.py:416-417, pine_converter.py:397-398:
\* hashes[slug] = content_hash
Hashed(hashes, slug, code) ==
    [hashes EXCEPT ![slug] = compute_content_hash(code)]

\* batch_scraper_v6.py:116-119: what load_state returns when there is no file
NoScraped == [scraped |-> <<>>, total_scraped |-> 0]

\* The lists of categories the model lets scrape_categories be called with
CategoryLists == {<<"popular">>, <<"top">>, <<"popular", "top">>, <<"top", "popular">>}

\* state: the dict scrape_categories loaded; local: the dict scrape_category
\* loaded; done: the local dict of the category that finished last
IdleScrape ==
    [pc |-> "idle", categories |-> <<>>, state |-> NoScraped, local |-> NoScraped,
     done |-> NoScraped]

\* batch_scraper_v6.py:447-470: scrape_categories starts and loads the state
ScrapeCategoriesStart(categories) ==
    /\ scrape_run.pc = "idle"
    /\ scrape_run' = [IdleScrape EXCEPT !.pc = "next", !.categories = categories,
                                        !.state = scraper_state]
    /\ UNCHANGED <<pine_files, v6_hashes, conv_hashes, transformed, last_scrape,
                   last_convert, scraper_state>>
    /\ UNCHANGED <<admVars, sweepVars, reqVars, calcVars>>

\* batch_scraper_v6.py:472-478, 280-335: scrape_category is called for the
\* next category and loads the state itself
ScrapeCategoryStart ==
    /\ scrape_run.pc = "next"
    /\ scrape_run.categories # <<>>
    /\ scrape_run' = [scrape_run EXCEPT !.pc = "category", !.local = scraper_state]
    /\ UNCHANGED <<pine_files, v6_hashes, conv_hashes, transformed, last_scrape,
                   last_convert, scraper_state>>
    /\ UNCHANGED <<admVars, sweepVars, reqVars, calcVars>>

\* batch_scraper_v6.py:394  url in state["scraped"] or pine_path.exists()
AlreadyScraped(slot) ==
    \/ slot \in RangeOf(scrape_run.local.scraped)
    \/ pine_files[slot] # "absent"

\* batch_scraper_v6.py:381-424: one script of a listing page of the category
\* being scraped; code is what extract_pine_source returns ("closed" for None)
ScrapeScript(cat, slug, code) ==
    /\ scrape_run.pc = "category"
    /\ scrape_run.categories[1] = cat
    /\ LET slot == Item(cat, slug)
       IN IF AlreadyScraped(slot)
          THEN /\ last_scrape' = "skipped"
               /\ UNCHANGED <<pine_files, v6_hashes, scrape_run>>
          ELSE IF code = "closed"
          THEN /\ last_scrape' = "closed"
               /\ UNCHANGED <<pine_files, v6_hashes, scrape_run>>
          ELSE IF is_duplicate(code, v6_hashes)
          THEN /\ last_scrape' = "duplicate"
               /\ UNCHANGED <<pine_files, v6_hashes, scrape_run>>
          ELSE /\ pine_files' = [pine_files EXCEPT ![slot] = code]
               /\ v6_hashes' = Hashed(v6_hashes, slug, code)
               /\ scrape_run' =
                     [scrape_run EXCEPT
                        !.local = [scraped |-> Append(@.scraped, slot),
                                   total_scraped |-> @.total_scraped + 1]]
               /\ last_scrape' = "saved"
    /\ UNCHANGED <<conv_hashes, transformed, last_convert, scraper_state>>
    /\ UNCHANGED <<admVars, sweepVars, reqVars, calcVars>>

\* batch_scraper_v6.py:484  save_state(state): the dict scrape_categories
\* loaded at line 467
SavedState == scrape_run.state

\* batch_scraper_v6.py:425-444, 479-497: scrape_category returns and the
\* state is saved, or it raised (a listing page that does not load) and
\* scrape_categories goes on to the next category
ScrapeCategoryEnd(returned) ==
    /\ scrape_run.pc = "category"
    /\ scrape_run' = [scrape_run EXCEPT
                        !.pc = "next", !.categories = Tail(@),
                        !.done = scrape_run.local, !.local = NoScraped]
    /\ scraper_state' = IF returned THEN SavedState ELSE scraper_state
    /\ last_scrape' = IF returned THEN "category_done" ELSE "category_error"
    /\ UNCHANGED <<pine_files, v6_hashes, conv_hashes, transformed, last_convert>>
    /\ UNCHANGED <<admVars, sweepVars, reqVars, calcVars>>

\* batch_scraper_v6.py:499-530: every category was gone through
ScrapeCategoriesEnd ==
    /\ scrape_run.pc = "next"
    /\ scrape_run.categories = <<>>
    /\ scrape_run' = IdleScrape
    /\ UNCHANGED <<pine_files, v6_hashes, conv_hashes, transformed, last_scrape,
                   last_convert, scraper_state>>
    /\ UNCHANGED <<admVars, sweepVars, reqVars, calcVars>>

\* The second element of the tuple convert_single_pine_script returns
DuplicateMessage == "Duplicate script (already converted)"

\* pine_converter.py:423-430: what __main__ prints and exits with, given
\* the error message of convert_single_pine_script
Main(slot, error) ==
    IF error = "" THEN [slot |-> slot, error |-> error, printed |-> "converted", exit |-> 0]
    ELSE [slot |-> slot, error |-> error, printed |-> "ERROR", exit |-> 1]

NoConvert == [slot |-> NoItem, error |-> "", printed |-> "-", exit |-> 0]

\* pine_converter.py:367-404, 423-430: one .pine file is converted;
\* converted says whether the LLM call returned
convert_single_pine_script(slot, converted) ==
    /\ pine_files[slot] # "absent"
    /\ LET code == pine_files[slot]
       IN IF is_duplicate(code, conv_hashes)
          THEN /\ last_convert' = Main(slot, DuplicateMessage)
               /\ UNCHANGED <<conv_hashes, transformed>>
          ELSE /\ transformed' = transformed \cup {slot}
               /\ conv_hashes' = IF converted
                                 THEN Hashed(conv_hashes, slot.stem, code)
                                 ELSE conv_hashes
               /\ last_convert' = Main(slot, IF converted THEN "" ELSE "LLM API call failed")
    /\ UNCHANGED <<pine_files, v6_hashes, last_scrape, scrape_run, scraper_state>>
    /\ UNCHANGED <<admVars, sweepVars, reqVars, calcVars>>

DedupInit ==
    /\ pine_files = [slot \in PineSlots |-> "absent"]
    /\ v6_hashes = NoHashes
    /\ conv_hashes = NoHashes
    /\ transformed = {}
    /\ last_scrape = "-"
    /\ last_convert = NoConvert
    /\ scrape_run = IdleScrape
    /\ scraper_state = NoScraped

DedupNext ==
    \/ \E categories \in CategoryLists : ScrapeCategoriesStart(categories)
    \/ ScrapeCategoryStart
    \/ \E cat \in ScrapeCats, slug \in Slugs, code \in Codes \cup {"closed"} :
          ScrapeScript(cat, slug, code)
    \/ \E returned \in BOOLEAN : ScrapeCategoryEnd(returned)
    \/ ScrapeCategoriesEnd
    \/ \E slot \in PineSlots, converted \in BOOLEAN :
          convert_single_pine_script(slot, converted)

-----------------------------------------------------------------------------
(* api/server.py: the admitted /backtest requests, stage by stage          *)

\* Executions of run_backtest that can be under way at the same time
Reqs == {1, 2}

\* The script pages a request can name
Urls == {"u1", "u2", "u3"}

\* single_scraper.py:154-168: the name scrape_single_url returns is the slug
\* of the page title; u1 and u2 are two scripts with the same title
Slug == [u \in Urls |-> IF u = "u3" THEN "macd-cross" ELSE "rsi-strategy"]

ScriptNames == {Slug[u] : u \in Urls}

\* single_scraper.py:155: the source the page shows
PineOf == [u \in Urls |-> IF u = "u1" THEN "pine_u1"
                          ELSE IF u = "u2" THEN "pine_u2" ELSE "pine_u3"]

\* pine_converter.py:254-289: the Python code the LLM returns for a source
PythonOf(pine_code) ==
    IF pine_code = "pine_u1" THEN "py_u1"
    ELSE IF pine_code = "pine_u2" THEN "py_u2" ELSE "py_u3"

\* single_scraper.py:131 (FileNotFoundError), 158 (ValueError), 151 (the
\* TimeoutError of page.goto, or any other exception of the browser)
ScrapeOutcomes == {"ok", "no_cookies", "closed_source", "timeout"}

\* The values a statistic of the engine can have: a finite number (in
\* tenths), None or a missing key, NaN, +Inf, -Inf
Num(v) == [kind |-> "num", v |-> v]

None == [kind |-> "none", v |-> 0]

NaN == [kind |-> "nan", v |-> 0]

PosInf == [kind |-> "inf", v |-> 0]

NegInf == [kind |-> "ninf", v |-> 0]

\* server.py:109-116: the engine keys the composite score reads
StatKeys == {"Sharpe Ratio", "Return [%]", "Win Rate [%]", "Profit Factor"}

NoStats == [key \in StatKeys |-> None]

\* Statistics with every value present and finite
PlainStats ==
    [key \in StatKeys |->
        IF key = "Sharpe Ratio" THEN Num(15)
        ELSE IF key = "Return [%]" THEN Num(100)
        ELSE IF key = "Win Rate [%]" THEN Num(600) ELSE Num(20)]

\* What one ticker's run comes to: the simulation raised
\* (backtest_engine.py:68-69), fetch_ohlcv raised (98-99), or the run gave
\* statistics (66-67)
FailedRun == [ok |-> FALSE, how |-> "simulation", stats |-> NoStats]

NoDataRun == [ok |-> FALSE, how |-> "data", stats |-> NoStats]

GoodRun(stats) == [ok |-> TRUE, how |-> "-", stats |-> stats]

\* A simulation that returns its error together with the statistics
DictKeys_ErrorWithStats(entry, run) ==
    IF entry.error = "" \/ run.how = "simulation"
    THEN StatKeys \cup {"ticker", "error"}
    ELSE {"error", "ticker"}

\* The keys of the dict of one ticker: the statistics of _stats_to_dict and
\* "ticker" (backtest_engine.py:67, 94), "error" and "traceback" and
\* "ticker" (69, 94), "error" and "ticker" (99), or "error" alone when the
\* strategy could not be loaded (server.py:225-229)
DictKeys(entry, run) ==
    IF entry.error = "" THEN StatKeys \cup {"ticker"}
    ELSE IF entry.error = "load_failed" THEN {"error"}
    ELSE IF run.how = "simulation" THEN {"error", "traceback", "ticker"}
    ELSE {"error", "ticker"}

\* One item of multi_stats, with the statistics of the run
StatEntry(entry, run) ==
    [ticker |-> entry.ticker, error |-> entry.error,
     keys |-> DictKeys(entry, run),
     stats |-> IF entry.error = "" THEN run.stats ELSE NoStats]

\* backtest_engine.py:87-102 with the try of server.py:220-229, the
\* statistics attached to the entries
MultiStats(loaded, runs) ==
    LET entries == run_multi_ticker_backtest(
                      loaded, [t \in Tickers |-> IF runs[t].ok THEN "ok" ELSE "error"])
    IN [k \in 1..Len(entries) |-> StatEntry(entries[k], runs[entries[k].ticker])]

\* A cleaning that lets every value through
clean_numeric_NoFilter(value) == value

\* server.py:97-105  _clean_numeric
clean_numeric(value) ==
    IF value.kind = "num" THEN value ELSE None

\* server.py:256-258, 265-279: the cleaned values of one statistic over the
\* entries without an error, None left out
CleanValues(multi_stats, key) ==
    LET kept == SelectSeq(multi_stats,
                          LAMBDA e : e.error = "" /\ clean_numeric(e.stats[key]) # None)
    IN [k \in 1..Len(kept) |-> clean_numeric(kept[k].stats[key])]

RECURSIVE SumSeq(_)

\* sum(values)
SumSeq(values) ==
    IF values = <<>> THEN 0 ELSE values[1].v + SumSeq(Tail(values))

\* A mean taken over all the tickers, the failed ones too
Mean6_OverAllTickers(values) == SumSeq(values) * (6 \div Len(TickerKeys))

\* server.py:263, 281-283: sum(values) / len(values), 0 for an empty list;
\* in sixths of a tenth, which is exact for one, two or three values
Mean6(values) ==
    IF values = <<>> THEN 0 ELSE SumSeq(values) * (6 \div Len(values))

\* server.py:286-289: the weights, in hundredths
W_SHARPE == 30

W_ROI == 25

W_WR == 25

W_PF == 20

\* The unit of the composite score in the model: with statistics in sixths
\* of a tenth and weights in hundredths, a score of Composite.num stands for
\* Composite.num / ScoreUnit
ScoreUnit == 6 * 10 * 100 * 100

NoComposite == [defined |-> FALSE, finite |-> TRUE, num |-> 0]

\* A score that is 0 when nothing succeeded
Composite_ZeroWhenEmpty(multi_stats) == [defined |-> TRUE, finite |-> TRUE, num |-> 0]

\* server.py:260-290
Composite(multi_stats) ==
    LET sharpe_values == CleanValues(multi_stats, "Sharpe Ratio")
        roi_vals == CleanValues(multi_stats, "Return [%]")
        wr_vals == CleanValues(multi_stats, "Win Rate [%]")
        pf_vals == CleanValues(multi_stats, "Profit Factor")
        all == sharpe_values \o roi_vals \o wr_vals \o pf_vals
    IN IF sharpe_values = <<>>
       THEN NoComposite
       ELSE [defined |-> TRUE,
             finite |-> \A k \in 1..Len(all) : all[k].kind = "num",
             num |-> W_SHARPE * 100 * Mean6(sharpe_values)
                     + W_ROI * Mean6(roi_vals)
                     + W_WR * Mean6(wr_vals)
                     + W_PF * 10 * Mean6(pf_vals)]

\* server.py:240-254: the tickers of the response; a dict with the key
\* "error" gives a result with the error alone, any other dict a result
\* whose metric fields are set from the dict (metrics), each cleaned
TickerResults(multi_stats) ==
    [k \in 1..Len(multi_stats) |->
        IF "error" \in multi_stats[k].keys
        THEN [ticker |-> multi_stats[k].ticker, error |-> multi_stats[k].error,
              metrics |-> FALSE, sharpe_ratio |-> None]
        ELSE [ticker |-> multi_stats[k].ticker, error |-> "",
              metrics |-> TRUE,
              sharpe_ratio |-> clean_numeric(multi_stats[k].stats["Sharpe Ratio"])]]

\* What a request was answered: status 0 stands for no answer yet; stage is
\* the stage whose failure ended the request
Answer(status, structured, detail, stage) ==
    [status |-> status, structured |-> structured, detail |-> detail,
     stage |-> stage, tickers |-> <<>>, composite |-> NoComposite, sync |-> "-"]

NoResponse == Answer(0, TRUE, "", "-")

\* raise HTTPException(status_code=..., detail=...)
HTTPException(status, detail, stage) == Answer(status, TRUE, detail, stage)

\* An exception no except clause of the handler names: the framework answers
\* 500 with the text "Internal Server Error"
Unhandled(stage) == Answer(500, FALSE, "Internal Server Error", stage)

\* server.py:184-191
ScrapeError(outcome) ==
    IF outcome = "no_cookies" THEN HTTPException(503, "Cookies file not found", "fetch")
    ELSE IF outcome = "closed_source"
         THEN HTTPException(422, "Could not extract Pine Script", "fetch")
         ELSE Unhandled("fetch")

\* server.py:200-204
ConvertError == HTTPException(422, "Pine Script conversion failed", "transform")

\* server.py:292-299
BacktestResponse(multi_stats) ==
    [status |-> 200, structured |-> TRUE, detail |-> "", stage |-> "-",
     tickers |-> TickerResults(multi_stats),
     composite |-> Composite(multi_stats), sync |-> "pending"]

\* calls: the calls of convert_pine_to_python the execution has made
IdleReq ==
    [pc |-> "idle", url |-> "-", script_name |-> "-", pine_code |-> "-",
     python_code |-> "-", evaluated |-> "-", multi_stats |-> <<>>, calls |-> <<>>]

\* server.py:160-187: a request that names a script page and passes
\* _check_rate_limit (see Submit) reaches the first await
Admitted(r, url) ==
    /\ req[r].pc = "idle"
    /\ req' = [req EXCEPT ![r] = [IdleReq EXCEPT !.pc = "scrape", !.url = url]]
    /\ response' = [response EXCEPT ![r] = NoResponse]
    /\ UNCHANGED custom_file
    /\ UNCHANGED <<admVars, sweepVars, dedupVars, calcVars>>

\* server.py:184-191: scrape_single_url returns the name and the source, or
\* raises
Scraped(r, outcome) ==
    /\ req[r].pc = "scrape"
    /\ IF outcome = "ok"
       THEN /\ req' = [req EXCEPT ![r].pc = "convert",
                                  ![r].script_name = Slug[req[r].url],
                                  ![r].pine_code = PineOf[req[r].url]]
            /\ UNCHANGED response
       ELSE /\ req' = [req EXCEPT ![r] = IdleReq]
            /\ response' = [response EXCEPT ![r] = ScrapeError(outcome)]
    /\ UNCHANGED custom_file
    /\ UNCHANGED <<admVars, sweepVars, dedupVars, calcVars>>

\* server.py:193-223: convert_pine_to_python is called once, with the
\* source and the name and no previous_error; it returns or raises; the code
\* is written to backtests/custom/<script_name>.py and the evaluation is
\* handed to a worker thread
Converted(r, ok) ==
    /\ req[r].pc = "convert"
    /\ IF ok
       THEN LET python_code == PythonOf(req[r].pine_code)
            IN /\ req' = [req EXCEPT ![r].pc = "evaluate",
                                     ![r].python_code = python_code,
                                     ![r].calls = Append(@, Call(req[r].pine_code,
                                                                 NoError, NoError))]
               /\ custom_file' = [custom_file EXCEPT ![req[r].script_name] = python_code]
               /\ UNCHANGED response
       ELSE /\ req' = [req EXCEPT ![r] = IdleReq]
            /\ response' = [response EXCEPT ![r] = ConvertError]
            /\ UNCHANGED custom_file
    /\ UNCHANGED <<admVars, sweepVars, dedupVars, calcVars>>

\* server.py:220-229 with backtest_engine.py:87-102: the worker thread loads
\* the strategy from the file and runs it on every ticker
Evaluated(r, loaded, runs) ==
    /\ req[r].pc = "evaluate"
    /\ ~loaded => runs = [t \in Tickers |-> FailedRun]
    /\ req' = [req EXCEPT ![r].pc = "respond",
                          ![r].evaluated = custom_file[req[r].script_name],
                          ![r].multi_stats = MultiStats(loaded, runs)]
    /\ UNCHANGED <<custom_file, response>>
    /\ UNCHANGED <<admVars, sweepVars, dedupVars, calcVars>>

\* The evaluate stage of a request, over the runs the model lets happen
Evaluate(r, runsets) ==
    /\ req[r].pc = "evaluate"
    /\ \E loaded \in BOOLEAN, runs \in runsets : Evaluated(r, loaded, runs)

\* server.py:231-299: the sync is scheduled as a background task, the
\* response is built and returned
Respond(r) ==
    /\ req[r].pc = "respond"
    /\ req' = [req EXCEPT ![r].pc = "sent"]
    /\ response' = [response EXCEPT ![r] = BacktestResponse(req[r].multi_stats)]
    /\ UNCHANGED custom_file
    /\ UNCHANGED <<admVars, sweepVars, dedupVars, calcVars>>

\* server.py:123-129: the background task runs after the response was sent;
\* an exception of sync_pipeline_run is printed
SyncTask(r, ok) ==
    /\ req[r].pc = "sent"
    /\ req' = [req EXCEPT ![r] = IdleReq]
    /\ response' = [response EXCEPT ![r].sync = IF ok THEN "synced" ELSE "failed"]
    /\ UNCHANGED custom_file
    /\ UNCHANGED <<admVars, sweepVars, dedupVars, calcVars>>

ReqInit ==
    /\ req = [r \in Reqs |-> IdleReq]
    /\ custom_file = [n \in ScriptNames |-> "absent"]
    /\ response = [r \in Reqs |-> NoResponse]

\* The runs of the tickers when only success and failure matter
PlainRuns == [Tickers -> {FailedRun, NoDataRun, GoodRun(PlainStats)}]

RequestStep(r, runsets) ==
    \/ \E outcome \in ScrapeOutcomes : Scraped(r, outcome)
    \/ \E ok \in BOOLEAN : Converted(r, ok)
    \/ Evaluate(r, runsets)
    \/ Respond(r)
    \/ \E ok \in BOOLEAN : SyncTask(r, ok)

\* Requests for any of the script pages, two at a time
InteractiveNext ==
    \E r \in Reqs :
       \/ \E url \in Urls : Admitted(r, url)
       \/ RequestStep(r, PlainRuns)

\* The values the model lets each statistic of a run take: two finite ones
\* and one that is not usable
SharpeChoices == {NaN, Num(15), Num(-2)}

RoiChoices == {None, Num(100), Num(-50)}

WrChoices == {PosInf, Num(600), Num(400)}

PfChoices == {NegInf, Num(20), Num(8)}

StatsOf(sharpe, roi, wr, pf) ==
    [key \in StatKeys |->
        IF key = "Sharpe Ratio" THEN sharpe
        ELSE IF key = "Return [%]" THEN roi
        ELSE IF key = "Win Rate [%]" THEN wr ELSE pf]

StatsChoices ==
    {StatsOf(sharpe, roi, wr, pf) :
        sharpe \in SharpeChoices, roi \in RoiChoices, wr \in WrChoices, pf \in PfChoices}

ScoreRuns == [Tickers -> {FailedRun} \cup {GoodRun(stats) : stats \in StatsChoices}]

\* One request at a time, with every combination of statistics
ScoreNext ==
    \/ Admitted(1, "u1")
    \/ RequestStep(1, ScoreRuns)

-----------------------------------------------------------------------------
(* The arithmetic of the composite score as CPython carries it out: the    *)
(* statistics and the weights are binary64 floats, every operation gives   *)
(* the float nearest to the exact result (ties to the even significand),   *)
(* and round(x, 4) rounds the exact value of the float x.                  *)

\* Op at the values of its arguments: each argument is evaluated once and
\* the operator works on the value, as a call of the interpreter does
At1(Op(_), a) == CHOOSE r \in {Op(x) : x \in {a}} : TRUE

At2(Op(_, _), a, b) == CHOOSE r \in {Op(x, y) : x \in {a}, y \in {b}} : TRUE

At3(Op(_, _, _), a, b, c) ==
    CHOOSE r \in {Op(x, y, z) : x \in {a}, y \in {b}, z \in {c}} : TRUE

\* Natural numbers of any size, as the significands and their products
\* need them: a sequence of limbs below Base, the lowest first, the top
\* limb not zero; <<>> is zero
Base == 2^15

Limb(a, i) == IF i <= Len(a) THEN a[i] ELSE 0

RECURSIVE Trim(_)

Trim(a) ==
    IF a # <<>> /\ a[Len(a)] = 0 THEN Trim(SubSeq(a, 1, Len(a) - 1)) ELSE a

RECURSIVE CmpFrom(_, _, _)

CmpFrom(a, b, i) ==
    IF i = 0 THEN 0
    ELSE IF a[i] > b[i] THEN 1
    ELSE IF a[i] < b[i] THEN -1
    ELSE CmpFrom(a, b, i - 1)

\* 1, 0 or -1 as a is above, equal to or below b
BigCmp(a, b) ==
    At2(LAMBDA x, y : IF Len(x) > Len(y) THEN 1
                      ELSE IF Len(x) < Len(y) THEN -1
                      ELSE CmpFrom(x, y, Len(x)),
        a, b)

RECURSIVE CarryInto(_, _, _)

\* The carry of a + b into limb i
CarryInto(a, b, i) ==
    IF i = 1 THEN 0
    ELSE (Limb(a, i - 1) + Limb(b, i - 1) + CarryInto(a, b, i - 1)) \div Base

Longer(a, b) == IF Len(a) > Len(b) THEN Len(a) ELSE Len(b)

BigAdd(a, b) ==
    At2(LAMBDA x, y :
           Trim([i \in 1..(Longer(x, y) + 1) |->
                   (Limb(x, i) + Limb(y, i) + CarryInto(x, y, i)) % Base]),
        a, b)

RECURSIVE BorrowFrom(_, _, _)

\* What a - b borrows from limb i
BorrowFrom(a, b, i) ==
    IF i = 1 THEN 0
    ELSE IF a[i - 1] - Limb(b, i - 1) - BorrowFrom(a, b, i - 1) < 0 THEN 1 ELSE 0

\* a - b, for a >= b
BigSub(a, b) ==
    At2(LAMBDA x, y :
           Trim([i \in 1..Len(x) |->
                   (x[i] - Limb(y, i) - BorrowFrom(x, y, i) + Base) % Base]),
        a, b)

RECURSIVE MulCarryInto(_, _, _)

\* The carry of a * k into limb i
MulCarryInto(a, k, i) ==
    IF i = 1 THEN 0
    ELSE (a[i - 1] * k + MulCarryInto(a, k, i - 1)) \div Base

\* a * k, for 0 <= k < Base
BigMulSmall(a, k) ==
    At2(LAMBDA x, y :
           Trim([i \in 1..(Len(x) + 1) |->
                   (Limb(x, i) * y + MulCarryInto(x, y, i)) % Base]),
        a, k)

\* a * Base^n
BigShiftLimbs(a, n) ==
    At2(LAMBDA x, y : IF x = <<>> THEN <<>> ELSE [i \in 1..y |-> 0] \o x, a, n)

RECURSIVE MulFrom(_, _, _)

MulFrom(a, b, i) ==
    IF i > Len(b) THEN <<>>
    ELSE BigAdd(BigShiftLimbs(BigMulSmall(a, b[i]), i - 1), MulFrom(a, b, i + 1))

BigMul(a, b) == At2(LAMBDA x, y : MulFrom(x, y, 1), a, b)

RECURSIVE RemFrom(_, _, _)

\* The remainder by k of the limbs of a from limb i up
RemFrom(a, k, i) ==
    IF i > Len(a) THEN 0 ELSE (RemFrom(a, k, i + 1) * Base + a[i]) % k

\* The quotient and the remainder of a by k, for 0 < k < Base
BigDivSmall(a, k) ==
    At2(LAMBDA x, y :
           [q |-> Trim([i \in 1..Len(x) |-> (RemFrom(x, y, i + 1) * Base + x[i]) \div y]),
            r |-> RemFrom(x, y, 1)],
        a, k)

\* a * 2^n
BigShl(a, n) == BigShiftLimbs(BigMulSmall(a, 2^(n % 15)), n \div 15)

\* a \div 2^n
BigShr(a, n) ==
    At2(LAMBDA x, y :
           IF y \div 15 >= Len(x) THEN <<>>
           ELSE BigDivSmall(SubSeq(x, y \div 15 + 1, Len(x)), 2^(y % 15)).q,
        a, n)

RECURSIVE Bits(_)

Bits(n) == IF n = 0 THEN 0 ELSE 1 + Bits(n \div 2)

\* int.bit_length
BitLength(a) ==
    At1(LAMBDA x : IF x = <<>> THEN 0 ELSE 15 * (Len(x) - 1) + Bits(x[Len(x)]), a)

\* The value of a number below Base^2
ToInt(a) == At1(LAMBDA x : Limb(x, 1) + Base * Limb(x, 2), a)

\* The quotient q of a by 2^s, or q + 1: the nearer one, of two equally
\* near the even one
NearerOf(a, s, q) ==
    At1(LAMBDA c : IF c > 0 \/ (c = 0 /\ Limb(q, 1) % 2 = 1)
                   THEN BigAdd(q, <<1>>) ELSE q,
        BigCmp(BigSub(a, BigShl(q, s)), BigShl(<<1>>, s - 1)))

\* a / 2^s to the nearest integer, a tie to the even one, for s >= 1
RoundHalfEven(a, s) ==
    At2(LAMBDA x, y : At1(LAMBDA q : NearerOf(x, y, q), BigShr(x, y)), a, s)

\* sys.float_info.mant_dig: the bits of the significand of a float
MANT_DIG == 53

\* A float is (-1)^sign * man * 2^exp with man of exactly MANT_DIG bits, or
\* zero.  The values of the score stay far from the ends of the exponent
\* range, so the model has no subnormal numbers and no overflow.
FZero == [sign |-> 0, man |-> <<>>, exp |-> 0]

\* The float of sign, significand q of MANT_DIG bits or of one more (a
\* rounding that carried), and exponent e
Normal(sign, q, e) ==
    IF BitLength(q) > MANT_DIG
    THEN [sign |-> sign, man |-> BigShr(q, 1), exp |-> e + 1]
    ELSE [sign |-> sign, man |-> q, exp |-> e]

\* The float nearest to (-1)^sign * a * 2^e, a having len bits
Nearest(sign, a, e, len) ==
    IF len = 0 THEN FZero
    ELSE IF len <= MANT_DIG
    THEN [sign |-> sign, man |-> BigShl(a, MANT_DIG - len), exp |-> e - (MANT_DIG - len)]
    ELSE At1(LAMBDA q : Normal(sign, q, e + (len - MANT_DIG)),
             RoundHalfEven(a, len - MANT_DIG))

\* The float nearest to (-1)^sign * a * 2^e
FRound(sign, a, e) ==
    At3(LAMBDA s, x, y : At1(LAMBDA len : Nearest(s, x, y, len), BitLength(x)),
        sign, a, e)

\* float(n) of an int n with |n| < Base^2
FromInt(n) ==
    At1(LAMBDA m : FRound(IF m < 0 THEN 1 ELSE 0,
                          IF m < 0 THEN Trim(<<(-m) % Base, (-m) \div Base>>)
                          ELSE Trim(<<m % Base, m \div Base>>),
                          0),
        n)

\* x + y for floats other than zero, their significands a and b brought
\* to the exponent e
Plus(x, y, e, a, b) ==
    IF x.sign = y.sign THEN FRound(x.sign, BigAdd(a, b), e)
    ELSE IF BigCmp(a, b) = 0 THEN FZero
    ELSE IF BigCmp(a, b) > 0 THEN FRound(x.sign, BigSub(a, b), e)
    ELSE FRound(y.sign, BigSub(b, a), e)

\* x + y
FAdd(x, y) ==
    At2(LAMBDA u, v :
           IF u.man = <<>> THEN v
           ELSE IF v.man = <<>> THEN u
           ELSE At3(LAMBDA e, a, b : Plus(u, v, e, a, b),
                    IF u.exp < v.exp THEN u.exp ELSE v.exp,
                    BigShl(u.man, IF u.exp < v.exp THEN 0 ELSE u.exp - v.exp),
                    BigShl(v.man, IF u.exp < v.exp THEN v.exp - u.exp ELSE 0)),
        x, y)

\* x * y
FMul(x, y) ==
    At2(LAMBDA u, v :
           FRound((u.sign + v.sign) % 2, BigMul(u.man, v.man), u.exp + v.exp),
        x, y)

\* x / k for an int k with 0 < k < Base: the quotient of the significand,
\* carried to two limbs more than the float keeps, with one more bit that
\* says whether a remainder was left
FDivInt(x, k) ==
    At2(LAMBDA u, d :
           FRound(u.sign,
                  BigAdd(BigShl(d.q, 1), IF d.r = 0 THEN <<>> ELSE <<1>>),
                  u.exp - 2 * 15 - 1),
        x, BigDivSmall(BigShiftLimbs(x.man, 2), k))

\* The float a statistic of the model (a number of tenths) stands for: the
\* float nearest to v / 10
FloatOf(value) == FDivInt(FromInt(value.v), 10)

\* The float of a literal of the source with two decimals: 0.3, 0.25, 0.2
Literal(hundredths) == FDivInt(FromInt(hundredths), 100)

RECURSIVE FSumFrom(_, _, _)

FSumFrom(values, k, acc) ==
    IF k > Len(values) THEN acc
    ELSE At1(LAMBDA t : FSumFrom(values, k + 1, t), FAdd(acc, FloatOf(values[k])))

\* -x
FNeg(x) == At1(LAMBDA u : IF u.man = <<>> THEN u ELSE [u EXCEPT !.sign = 1 - u.sign], x)

\* fabs(x) >= fabs(y)
FAbsGeq(x, y) ==
    IF y.man = <<>> THEN TRUE
    ELSE IF x.man = <<>> THEN FALSE
    ELSE x.exp > y.exp \/ (x.exp = y.exp /\ BigCmp(x.man, y.man) >= 0)

\* What the addition t = total + x rounded away
Lost(total, x, t) ==
    IF FAbsGeq(total, x)
    THEN FAdd(FAdd(total, FNeg(t)), x)
    ELSE FAdd(FAdd(x, FNeg(t)), total)

RECURSIVE NeumaierFrom(_, _, _, _)

NeumaierFrom(values, k, total, c) ==
    IF k > Len(values) THEN FAdd(total, c)
    ELSE At2(LAMBDA x, t :
                At1(LAMBDA c2 : NeumaierFrom(values, k + 1, t, c2),
                    FAdd(c, Lost(total, x, t))),
             FloatOf(values[k]), FAdd(total, FloatOf(values[k])))

\* sum(values): the values added one after the other to 0; an interpreter
\* from CPython 3.12 on also adds up what each addition rounded away and
\* adds that to the total at the end
FSum(values, compensated) ==
    At1(LAMBDA vs : IF compensated THEN NeumaierFrom(vs, 1, FZero, FZero)
                    ELSE FSumFrom(vs, 1, FZero),
        values)

\* server.py:263, 281-283: sum(values) / len(values), 0 for an empty list
FMean(values, compensated) ==
    At1(LAMBDA vs : IF vs = <<>> THEN FZero
                    ELSE FDivInt(FSum(vs, compensated), Len(vs)),
        values)

\* server.py:285-290: the composite, for a non-empty sharpe_values
FloatComposite(multi_stats, compensated) ==
    LET avg_sharpe == FMean(CleanValues(multi_stats, "Sharpe Ratio"), compensated)
        avg_roi == FMean(CleanValues(multi_stats, "Return [%]"), compensated)
        avg_wr == FMean(CleanValues(multi_stats, "Win Rate [%]"), compensated)
        avg_pf == FMean(CleanValues(multi_stats, "Profit Factor"), compensated)
    IN FAdd(FAdd(FAdd(FMul(avg_sharpe, Literal(W_SHARPE)),
                      FMul(FDivInt(avg_roi, 100), Literal(W_ROI))),
                 FMul(FDivInt(avg_wr, 100), Literal(W_WR))),
            FMul(FDivInt(avg_pf, 10), Literal(W_PF)))

\* A rounding that cuts the digits after the fourth off
round4_Truncate(x) ==
    At1(LAMBDA u :
           At1(LAMBDA n : IF u.sign = 1 THEN -n ELSE n,
               ToInt(IF u.exp >= 0 THEN BigShl(BigMulSmall(u.man, 10000), u.exp)
                     ELSE BigShr(BigMulSmall(u.man, 10000), -u.exp))),
        x)

\* server.py:295  round(composite, 4): the number of ten-thousandths nearest
\* to the exact value of the float, a tie to the even one
round4(x) ==
    At1(LAMBDA u :
           At1(LAMBDA n : IF u.sign = 1 THEN -n ELSE n,
               ToInt(IF u.exp >= 0 THEN BigShl(BigMulSmall(u.man, 10000), u.exp)
                     ELSE RoundHalfEven(BigMulSmall(u.man, 10000), -u.exp))),
        x)

\* The statistics of the runs the arithmetic is checked on
StatsA == StatsOf(Num(15), Num(100), Num(600), Num(20))

StatsC == StatsOf(Num(-2), Num(-50), Num(400), Num(8))

StatsD == StatsOf(Num(7), Num(333), Num(555), Num(11))

StatsE == StatsOf(Num(23), None, Num(1000), NaN)

FloatRuns ==
    [Tickers -> {FailedRun, GoodRun(StatsA), GoodRun(StatsC), GoodRun(StatsD),
                 GoodRun(StatsE)}]

CalcIdle ==
    [pc |-> "idle", multi_stats |-> <<>>, compensated |-> FALSE, defined |-> FALSE,
     composite |-> FZero, composite_score |-> 0]

CalcInit == calc = CalcIdle

\* The results of the three tickers arrive at server.py:255, in an
\* interpreter whose sum is of the one kind or of the other
CalcInputs ==
    {[CalcIdle EXCEPT !.pc = "stats", !.multi_stats = MultiStats(TRUE, runs),
                      !.compensated = compensated] :
        runs \in FloatRuns, compensated \in BOOLEAN}

\* server.py:260-290
ComputeComposite ==
    /\ calc.pc = "stats"
    /\ calc' = [calc EXCEPT
                  !.pc = "composite",
                  !.defined = CleanValues(calc.multi_stats, "Sharpe Ratio") # <<>>,
                  !.composite =
                      IF CleanValues(calc.multi_stats, "Sharpe Ratio") # <<>>
                      THEN FloatComposite(calc.multi_stats, calc.compensated)
                      ELSE FZero]
    /\ UNCHANGED <<admVars, sweepVars, dedupVars, reqVars>>

\* server.py:295
RoundComposite ==
    /\ calc.pc = "composite"
    /\ calc' = [calc EXCEPT
                  !.pc = "rounded",
                  !.composite_score = IF calc.defined THEN round4(calc.composite) ELSE 0]
    /\ UNCHANGED <<admVars, sweepVars, dedupVars, reqVars>>

CalcNext == ComputeComposite \/ RoundComposite

-----------------------------------------------------------------------------
(* Specifications                                                          *)

InitAll == AdmInit /\ SweepInit /\ DedupInit /\ ReqInit /\ CalcInit

\* The API server
SpecAdmission == InitAll /\ [][AdmNext]_vars

\* One orchestrator, swept repeatedly without --rerun
SpecSweep == InitAll /\ [][SweepNext]_vars

\* One orchestrator, swept repeatedly with and without --rerun
SpecForce == InitAll /\ [][ForceNext]_vars

\* Two orchestrators over disjoint categories
SpecConcurrent == InitAll /\ [][ConcurrentNext]_vars

\* The scraper and the converter with their hash ledgers
SpecDedup == InitAll /\ [][DedupNext]_vars

\* The API server's requests, stage by stage
SpecInteractive == InitAll /\ [][InteractiveNext]_vars

\* The composite score of the API's response
SpecScore == InitAll /\ [][ScoreNext]_vars

\* Both paths of an item: the orchestrator sweeping one category and one
\* request of the API
PipelineNext ==
    \/ Start(1, "top", 0, FALSE)
    \/ Step(1)
    \/ \E url \in Urls : Admitted(1, url)
    \/ RequestStep(1, PlainRuns)

SpecPipeline == InitAll /\ [][PipelineNext]_vars

\* The arithmetic of the composite score, on each of the inputs
CalcStart == AdmInit /\ SweepInit /\ DedupInit /\ ReqInit /\ calc \in CalcInputs

SpecBinary64 == CalcStart /\ [][CalcNext]_vars

-----------------------------------------------------------------------------
(* Claims about the admission control, checked under SpecAdmission         *)

\* C1: in every reachable state the in-flight counter equals the number of
\* admitted runs that have not completed (so it is never negative and never
\* above MAX_CONCURRENT); every way a run ends gives its slot back once.
C1_CounterIsInFlight ==
    /\ active_count = InFlight
    /\ active_count >= 0
    /\ active_count <= MAX_CONCURRENT

\* C1 witness: a run has just ended in a transform failure while another
\* admitted run is still in flight.
C1_Witness ==
    /\ resp = Finish("transform_error")
    /\ InFlight >= 1

\* C2: with MAX_CONCURRENT runs in flight a submission is rejected as
\* "concurrent" and nothing is admitted; with fewer in flight (as after a
\* completion) a submission of a client under its rate limit is admitted.
C2_CeilingThenAdmit ==
    [][\A ip \in Clients :
         Submit(ip, TRUE) =>
           /\ InFlight = MAX_CONCURRENT =>
                /\ resp'.outcome = "concurrent"
                /\ InFlight' = InFlight
           /\ (InFlight < MAX_CONCURRENT /\ ~RateExceeded(ip)) =>
                /\ resp'.outcome = "admitted"
                /\ InFlight' = InFlight + 1]_vars

\* C2 witness: a submission was rejected at the ceiling, then exactly one
\* run completed, then this submission was admitted.
C2_Witness ==
    /\ full_phase = 3
    /\ resp.outcome = "admitted"
    /\ InFlight = MAX_CONCURRENT

Rejections == {"bad_url", "concurrent", "rate"}

\* C30: a request that is rejected (invalid URL, concurrency ceiling, rate
\* limit) leaves the in-flight counter as it was and adds no timestamp to
\* the window of any client: every list is what it was, or what it was
\* without its expired timestamps, so the quota each client has used (its
\* timestamps younger than WINDOW) is unchanged.
C30_RejectionCountsNothing ==
    [][\A ip \in Clients, url_ok \in BOOLEAN :
         (Submit(ip, url_ok) /\ resp'.outcome \in Rejections) =>
           /\ active_count' = active_count
           /\ running' = running
           /\ \A c \in Clients :
                /\ hourly_counts'[c] \in {hourly_counts[c], Recent(c)}
                /\ c # ip => hourly_counts'[c] = hourly_counts[c]
                /\ SelectSeq(hourly_counts'[c], LAMBDA t : t > now - WINDOW) = Recent(c)]_vars

\* C30 witness: a client at its rate limit has just been rejected while a
\* run is in flight and the other client has used none of its quota.
C30_Witness ==
    /\ resp.outcome = "rate"
    /\ active_count = 1
    /\ Len(hourly_counts[resp.ip]) = MAX_PER_HOUR
    /\ \E c \in Clients : hourly_counts[c] = <<>>

-----------------------------------------------------------------------------
(* Claims about the batch orchestrator                                     *)

Stems(st) == RangeOf(st.processed) \cup RangeOf(st.failed)

Working == {"convert1", "convert2", "write_error", "write_bt", "backtest", "finalize"}

\* C4 (as claimed): a sweep without --rerun that follows a completed sweep of
\* the same backlog selects no item, and no item gets a terminal record twice.
C4_SecondSweepSelectsNothing ==
    /\ [](\A i \in Items : term_count[i] <= 1)
    /\ [][\A p \in Procs :
            (/\ Select(p, TRUE)
             /\ prev.how = "completed"
             /\ prev.category = proc[p].category
             /\ prev.limit = proc[p].limit)
            => proc'[p].pc = "done"]_vars

\* C4 (amended): the same, for a first sweep that ran without --limit.
C4_SecondSweepAfterFullSweep ==
    /\ [](\A i \in Items : term_count[i] <= 1)
    /\ [][\A p \in Procs :
            (Select(p, TRUE) /\ Repeats(proc[p].category))
            => proc'[p].pc = "done"]_vars

\* C4 witness: a sweep that followed a completed unlimited sweep of the same
\* category has ended having selected nothing, with items recorded before.
C4_Witness ==
    /\ prev.how = "completed"
    /\ prev.repeat
    /\ prev.selected = 0
    /\ \E i \in Items : term_count[i] = 1

\* C5: whenever a sweep without --rerun is in the transform or evaluate stage
\* of an item, also after interruptions and restarts, no terminal record has
\* been saved for that item before.
C5_NoTerminalItemReprocessed ==
    \A p \in Procs :
       proc[p].pc \in Working => term_count[Cur(p)] = 0

\* C5 witness: a sweep restarted after an interruption has skipped recorded
\* items and is transforming another one.
C5_Witness ==
    /\ prev.how = "interrupted"
    /\ proc[1].pc = "convert1"
    /\ proc[1].skipped > 0

\* C6: a sweep over all categories without --rerun and without --limit
\* selects every item that has no terminal record (stated for the items whose
\* name no record of the ledger carries).
C6_ResumeSelectsPending ==
    [][\A p \in Procs :
         (Select(p, TRUE) /\ proc[p].category = "none" /\ proc[p].limit = 0)
         => \A i \in Items :
              (term_count[i] = 0 /\ i.stem \notin Stems(state_file))
              => i \in RangeOf(proc'[p].pines)]_vars

\* C7: once both concurrent orchestrators have finished, the ledger file
\* names every item either of them recorded.
C7_NoRecordLost ==
    (\A p \in Procs : proc[p].pc = "done")
    => \A i \in Items : term_count[i] >= 1 => i.stem \in Stems(state_file)

NoRepeat(seq) == \A j, k \in 1..Len(seq) : seq[j] = seq[k] => j = k

\* C24: after any sequence of sweeps, --rerun sweeps included, the ledger
\* file names no item twice in the processed list, none twice in the failed
\* list and none in both, and an item named as processed is never named as
\* failed afterwards.
C24_OneRecordPerItem ==
    /\ [](/\ NoRepeat(state_file.processed)
          /\ NoRepeat(state_file.failed)
          /\ RangeOf(state_file.processed) \cap RangeOf(state_file.failed) = {})
    /\ [][RangeOf(state_file.processed) \cap RangeOf(state_file'.failed) = {}]_vars

\* The last n entries of a list
LastOf(seq, n) == SubSeq(seq, Len(seq) - n + 1, Len(seq))

\* How many entries of a list of stems, or of items, carry the stem
TimesIn(seq, stem) == Cardinality({k \in 1..Len(seq) : seq[k] = stem})

TimesAmong(pines, stem) == Cardinality({k \in 1..Len(pines) : pines[k].stem = stem})

\* How many of the selected items the loop has gone through
Attempted(p) == IF proc[p].pc = "save" THEN proc[p].idx ELSE proc[p].idx - 1

InLoop == {"read", "record", "save"} \cup Working

\* C25: within a sweep, exceptions included, the items gone through so far
\* are the first ones of the selection, each selected once; the two counters
\* add up to their number; the entries the sweep appended to the two lists
\* name each of them once, in one list; after an item that is not the last
\* one the loop goes on with the next, whatever the outcome was; and when the
\* last item is saved the counters add up to the number of selected items.
C25_EveryItemRecordedOnce ==
    /\ [](\A p \in Procs :
            proc[p].pc \in InLoop =>
               LET a == proc[p]
                   done == SubSeq(a.pines, 1, Attempted(p))
               IN /\ NoRepeat(a.pines)
                  /\ a.idx \in 1..Len(a.pines)
                  /\ a.success + a.failed = Attempted(p)
                  /\ a.success <= Len(a.mem.processed)
                  /\ a.failed <= Len(a.mem.failed)
                  /\ \A stem \in {"alpha", "beta"} :
                        TimesIn(LastOf(a.mem.processed, a.success), stem)
                           + TimesIn(LastOf(a.mem.failed, a.failed), stem)
                        = TimesAmong(done, stem))
    /\ [][\A p \in Procs :
            Save(p) =>
               IF proc[p].idx < Len(proc[p].pines)
               THEN /\ proc'[p].pc = "read"
                    /\ proc'[p].idx = proc[p].idx + 1
                    /\ proc'[p].pines = proc[p].pines
               ELSE /\ proc'[p].pc = "done"
                    /\ proc[p].success + proc[p].failed = Len(proc[p].pines)]_vars

\* C25 witness: the second item of a sweep raised an unexpected exception,
\* the first one did not, and the sweep is about to save the record of the
\* second, its last item.
C25_Witness ==
    /\ proc[1].pc = "save"
    /\ proc[1].outcome = "exception"
    /\ proc[1].idx = 2
    /\ Len(proc[1].pines) = 2
    /\ proc[1].success = 1
    /\ proc[1].failed = 1

\* Whether --category lets the item in
InCategory(i, category) == category = "none" \/ i.cat = category

\* C26: a sweep without --rerun leaves out of the files it found only items
\* that an earlier sweep recorded themselves.
C26_OnlyRecordedItemsSkipped ==
    [][\A p \in Procs :
         (Select(p, TRUE) /\ ~proc[p].rerun)
         => \A i \in RangeOf(Limited(get_unprocessed_pines(proc[p].category, FALSE),
                                      proc[p].limit)) :
               i \notin RangeOf(proc'[p].pines) => term_count[i] >= 1]_vars

\* An item of the sweep's categories that no sweep has recorded and whose
\* name no record of the ledger carries
Pending(i, category) ==
    /\ InCategory(i, category)
    /\ term_count[i] = 0
    /\ i.stem \notin Stems(state_file)

\* Every name the ledger carries is, within the sweep's categories, the name
\* of items that were recorded themselves
NoNamesake(category) ==
    \A i \in Items :
       (InCategory(i, category) /\ i.stem \in Stems(state_file)) => term_count[i] >= 1

\* C27: as long as some item is pending, a sweep with --limit K > 0 and
\* without --rerun selects at least one pending item (stated for sweeps in
\* whose categories no item shares its name with a recorded one).
C27_LimitedSweepSelectsPending ==
    [][\A p \in Procs :
         (/\ Select(p, TRUE)
          /\ proc[p].limit > 0
          /\ ~proc[p].rerun
          /\ NoNamesake(proc[p].category)
          /\ \E i \in Items : Pending(i, proc[p].category))
         => \E i \in RangeOf(proc'[p].pines) : Pending(i, proc[p].category)]_vars

\* C10: for the item being processed the transform stage has been called at
\* most twice; the first call carries no previous_error; a second call exists
\* only after the first raised, and carries the same source text and the
\* first call's error; no item is selected twice in a sweep.
C10_RetryOnceWithFeedback ==
    \A p \in Procs :
       LET c == proc[p].calls
           sel == proc[p].pines
       IN /\ Len(c) <= 2
          /\ Len(c) >= 1 =>
               /\ c[1].previous_error = NoError
               /\ c[1].pine_code = PineCode(Cur(p))
          /\ Len(c) = 2 =>
               /\ c[1].raised # NoError
               /\ c[2].previous_error = c[1].raised
               /\ c[2].pine_code = c[1].pine_code
          /\ proc[p].pc = "write_error" =>
               (Len(c) = 2 /\ c[2].raised # NoError)
          /\ \A j, k \in 1..Len(sel) : sel[j] = sel[k] => j = k

\* C10 witness: both calls for an item have failed, with different errors,
\* and the item is about to be written off.
C10_Witness ==
    /\ proc[1].pc = "write_error"
    /\ Len(proc[1].calls) = 2
    /\ proc[1].calls[1].raised = LLMError("timeout")
    /\ proc[1].calls[2].raised = LLMError("bad_output")

\* Both calls of the transform stage have been made for the current item and
\* both raised
Exhausted(p) ==
    /\ Len(proc[p].calls) = 2
    /\ proc[p].calls[2].raised # NoError

\* C11: once both transform attempts of an item have failed, the sweep only
\* writes the item off: it never enters the write or evaluate steps, the
\* placeholder file carries the second error as it was raised, the item is
\* appended to the failed list (never to the processed list), and the ledger
\* saved next names it as failed.
C11_ExhaustedMeansFailed ==
    /\ [](\A p \in Procs :
            Exhausted(p) =>
               /\ proc[p].pc \in {"write_error", "record", "save"}
               /\ proc[p].pc \in {"record", "save"} =>
                     /\ proc[p].outcome \in {"failed", "exception"}
                     /\ bt[Cur(p)] = "error"
                     /\ bt_error[Cur(p)] = ConversionFailed(proc[p].calls[2].raised)
               /\ proc[p].pc = "save" =>
                     /\ proc[p].mem.failed # <<>>
                     /\ proc[p].mem.failed[Len(proc[p].mem.failed)] = Cur(p).stem)
    /\ [][\A p \in Procs :
            /\ (Exhausted(p) /\ Record(p))
               => /\ proc'[p].mem.failed = Append(proc[p].mem.failed, Cur(p).stem)
                  /\ proc'[p].mem.processed = proc[p].mem.processed
            /\ (Exhausted(p) /\ Save(p))
               => Cur(p).stem \in RangeOf(state_file'.failed)]_vars

\* C11 witness: an item whose two transform attempts failed has just been
\* saved to the ledger as failed, with its error in the placeholder file.
C11_Witness ==
    \E i \in Items :
       /\ bt[i] = "error"
       /\ bt_error[i] = ConversionFailed(LLMError("bad_output"))
       /\ term_count[i] = 1
       /\ i.stem \in RangeOf(state_file.failed)
       /\ i.stem \notin RangeOf(state_file.processed)

-----------------------------------------------------------------------------
(* Claims about the stages of one item, on both paths                      *)

\* multi_stats has one entry for each key of TICKERS and no other
OnePerTicker(multi_stats) ==
    /\ Len(multi_stats) = Cardinality(Tickers)
    /\ \A t \in Tickers : \E k \in 1..Len(multi_stats) : multi_stats[k].ticker = t

\* C12: whatever the tickers' runs come to, and also when the strategy
\* cannot be loaded, the evaluate stage leaves one entry per ticker; the
\* batch item then goes on to be recorded as processed (if its files and CSV
\* rows get written), and the request is answered 200 with one result per
\* ticker.
C12_OneResultPerInstrument ==
    /\ [](/\ \A p \in Procs :
               proc[p].pc \in {"finalize", "record"} /\ proc[p].multi_stats # <<>>
               => OnePerTicker(proc[p].multi_stats)
          /\ \A r \in Reqs :
               /\ req[r].pc \in {"respond", "sent"} => OnePerTicker(req[r].multi_stats)
               /\ response[r].status = 200 => OnePerTicker(response[r].tickers))
    /\ [][\A p \in Procs :
            /\ (\E loaded \in BOOLEAN, outcome \in TickerOutcomes :
                    Backtest(p, loaded, outcome))
               => proc'[p].pc = "finalize" /\ proc'[p].multi_stats # <<>>
            /\ (\E synced, notified \in BOOLEAN : Finalize(p, TRUE, synced, notified))
               => proc'[p].outcome = "ok"
            /\ (proc[p].multi_stats # <<>> /\ proc[p].outcome = "ok" /\ Record(p))
               => /\ proc'[p].mem.processed = Append(proc[p].mem.processed, Cur(p).stem)
                  /\ proc'[p].mem.failed = proc[p].mem.failed]_vars
    /\ [][\A r \in Reqs :
            (req[r].pc = "respond" /\ Respond(r)) => response'[r].status = 200]_vars

\* C12 witness: a batch item for which one ticker failed and another did not
\* is about to be recorded as processed, and a request whose strategy could
\* not be loaded has been answered 200 with an error for every ticker.
C12_Witness ==
    /\ proc[1].pc = "record"
    /\ proc[1].outcome = "ok"
    /\ \E j, k \in 1..Len(proc[1].multi_stats) :
          proc[1].multi_stats[j].error = "" /\ proc[1].multi_stats[k].error # ""
    /\ response[1].status = 200
    /\ \A k \in 1..Len(response[1].tickers) : response[1].tickers[k].error = "load_failed"

\* C13: a request is transformed only after its own fetch returned, on the
\* source that fetch returned; it is evaluated only after its own transform
\* returned, and the code the evaluate stage loads is the code that
\* transform returned.
C13_EachStageOnOwnInput ==
    \A r \in Reqs :
       /\ req[r].pc \in {"convert", "evaluate", "respond", "sent"}
          => req[r].pine_code = PineOf[req[r].url]
       /\ req[r].pc \in {"evaluate", "respond", "sent"}
          => req[r].python_code = PythonOf(req[r].pine_code)
       /\ req[r].pc \in {"respond", "sent"}
          => req[r].evaluated = req[r].python_code

\* C19: whether the sync and the notifications of an evaluated batch item
\* succeed or fail, the item is reported as ok and recorded as processed;
\* whether the background sync of a request succeeds or fails, the response
\* that was returned stays as it was, a 200 with the results.
C19_SideEffectsIsolated ==
    /\ [](/\ \A p \in Procs :
               (proc[p].pc = "record" /\ proc[p].side.attempted)
               => proc[p].outcome = "ok"
          /\ \A r \in Reqs :
               response[r].sync \in {"synced", "failed"}
               => response[r].status = 200 /\ OnePerTicker(response[r].tickers))
    /\ [][\A p \in Procs :
            (proc[p].pc = "record" /\ proc[p].side.attempted /\ Record(p))
            => /\ proc'[p].mem.processed = Append(proc[p].mem.processed, Cur(p).stem)
               /\ proc'[p].mem.failed = proc[p].mem.failed]_vars
    /\ [][\A r \in Reqs :
            (\E ok \in BOOLEAN : SyncTask(r, ok))
            => response'[r] = [response[r] EXCEPT !.sync = response'[r].sync]]_vars

\* C19 witness: the sync and a notification of a batch item failed and the
\* item is about to be recorded as processed; the background sync of a
\* request failed and its response is a 200.
C19_Witness ==
    /\ proc[1].pc = "record"
    /\ proc[1].side = [synced |-> FALSE, notified |-> FALSE, attempted |-> TRUE]
    /\ proc[1].outcome = "ok"
    /\ response[1].sync = "failed"
    /\ response[1].status = 200

\* C23: every per-ticker result has either the error and no metric, or the
\* metrics and no error, never both and never neither: in the dicts of
\* multi_stats (the key "error" against the keys of the statistics) and in
\* the tickers of the response, whether the run succeeded, the data could
\* not be fetched, the simulation raised or the strategy could not be loaded.
C23_ErrorXorMetrics ==
    \A r \in Reqs :
       /\ \A k \in 1..Len(req[r].multi_stats) :
             LET e == req[r].multi_stats[k]
             IN /\ ("error" \in e.keys) # (e.keys \cap StatKeys # {})
                /\ ("error" \in e.keys) = (e.error # "")
                /\ ("error" \notin e.keys) => StatKeys \subseteq e.keys
       /\ \A k \in 1..Len(response[r].tickers) :
             LET t == response[r].tickers[k]
             IN /\ (t.error # "") # t.metrics
                /\ ~t.metrics => t.sharpe_ratio = None

\* C23 witness: a response whose three tickers are a success, a ticker
\* without data and a ticker whose simulation raised.
C23_Witness ==
    \E r \in Reqs :
       /\ response[r].status = 200
       /\ req[r].pc = "sent"
       /\ req[r].multi_stats[1].keys = StatKeys \cup {"ticker"}
       /\ req[r].multi_stats[2].keys = {"error", "ticker"}
       /\ req[r].multi_stats[3].keys = {"error", "traceback", "ticker"}
       /\ response[r].tickers[1].metrics
       /\ response[r].tickers[2].error # ""

\* C28: whatever other request is in flight, for the same script name or
\* for another, the code a request's worker thread loads and evaluates is
\* the code that request's own call of the converter returned.
C28_EvaluatesOwnCode ==
    [][\A r \in Reqs :
         (req[r].pc = "evaluate" /\ req'[r].pc = "respond") =>
            req'[r].evaluated = req[r].python_code]_vars

\* C21: on the interactive path a transform failure is reported to the
\* caller only after a second attempt: the call of the converter that ends
\* a request with the transform error follows a first call of the same
\* request that failed.
C21_FailureOnlyAfterRetry ==
    [][\A r \in Reqs :
         (response'[r] # response[r] /\ response'[r].stage = "transform") =>
            /\ Len(req[r].calls) = 1
            /\ req[r].calls[1].raised # NoError]_vars

\* C20: a request that ends in a fetch or transform failure is answered with
\* a structured error (an HTTPException of the handler) whose status tells
\* the two stages apart; a request that got as far as the evaluate stage is
\* answered 200 with one result per ticker, the errors inline.
C20_FailureKinds ==
    \A r \in Reqs :
       /\ response[r].stage \in {"fetch", "transform"} => response[r].structured
       /\ \A q \in Reqs :
             (response[r].stage = "fetch" /\ response[q].stage = "transform")
             => response[r].status # response[q].status
       /\ req[r].pc = "sent"
          => response[r].status = 200 /\ OnePerTicker(response[r].tickers)

-----------------------------------------------------------------------------
(* Claims about the composite score, checked under SpecScore and, for the  *)
(* arithmetic in floats, under SpecBinary64                                *)

\* The entries of multi_stats without an error
Successes(multi_stats) ==
    {k \in 1..Len(multi_stats) : multi_stats[k].error = ""}

\* The successes whose value of a statistic is present and finite
Usable(multi_stats, key) ==
    {k \in Successes(multi_stats) : multi_stats[k].stats[key].kind = "num"}

RECURSIVE SumOver(_, _, _)

SumOver(multi_stats, key, ks) ==
    IF ks = {} THEN 0
    ELSE LET k == CHOOSE j \in ks : TRUE
         IN multi_stats[k].stats[key].v + SumOver(multi_stats, key, ks \ {k})

\* The mean of a statistic over a set of entries, in sixths of a tenth; 0
\* over no entry
MeanOver(multi_stats, key, ks) ==
    IF ks = {} THEN 0
    ELSE SumOver(multi_stats, key, ks) * (6 \div Cardinality(ks))

\* 0.30*sharpe + 0.25*return/100 + 0.25*win_rate/100 + 0.20*profit_factor/10
\* in units of 1/ScoreUnit
Weighted(sharpe, roi, wr, pf) ==
    W_SHARPE * 100 * sharpe + W_ROI * roi + W_WR * wr + W_PF * 10 * pf

\* A request whose response has been built, with the statistics it was built
\* from still at hand
Answered(r) == req[r].pc = "sent" /\ response[r].status = 200

\* C14: a response in which every ticker has an error carries no composite
\* score (None), not a score of 0.
C14_AllFailedIsUndefined ==
    \A r \in Reqs :
       (/\ response[r].status = 200
        /\ \A k \in 1..Len(response[r].tickers) : response[r].tickers[k].error # "")
       => ~response[r].composite.defined

\* C14 witness: the runs of all three tickers failed (the strategy loaded),
\* and the response carries no score.
C14_Witness ==
    /\ Answered(1)
    /\ Successes(req[1].multi_stats) = {}
    /\ \A k \in 1..Len(response[1].tickers) : response[1].tickers[k].error = "ticker_failed"
    /\ ~response[1].composite.defined

\* Every success has all four statistics present and finite
AllPresent(multi_stats) ==
    \A key \in StatKeys : Usable(multi_stats, key) = Successes(multi_stats)

\* C15: when there is a success and every success has all four statistics
\* present and finite, the score is the weighted sum of the four means taken
\* over the successes only, and the weights add up to 1.
C15_CompositeFormula ==
    /\ W_SHARPE + W_ROI + W_WR + W_PF = 100
    /\ \A r \in Reqs :
          LET ms == req[r].multi_stats
              ok == Successes(ms)
          IN (Answered(r) /\ ok # {} /\ AllPresent(ms))
             => /\ response[r].composite.defined
                /\ response[r].composite.num =
                      Weighted(MeanOver(ms, "Sharpe Ratio", ok),
                               MeanOver(ms, "Return [%]", ok),
                               MeanOver(ms, "Win Rate [%]", ok),
                               MeanOver(ms, "Profit Factor", ok))

\* C15 witness: SPY succeeded with 1.5, 10, 60, 2.0, BTC failed, QQQ succeeded
\* with -0.2, -5, 40, 0.8; the score is 0.35425.
C15_Witness ==
    /\ Answered(1)
    /\ req[1].multi_stats =
          MultiStats(TRUE, [t \in Tickers |->
             IF t = "SPY" THEN GoodRun(StatsOf(Num(15), Num(100), Num(600), Num(20)))
             ELSE IF t = "BTC" THEN FailedRun
             ELSE GoodRun(StatsOf(Num(-2), Num(-50), Num(400), Num(8)))])
    /\ response[1].composite.defined
    /\ response[1].composite.num * 4000 = 1417 * ScoreUnit

\* C16: a response with at least one ticker without an error carries a
\* composite score, in which a statistic with no usable value among the
\* successes counts for zero.
C16_DefinedWithOneSuccess ==
    \A r \in Reqs :
       LET ms == req[r].multi_stats
       IN (Answered(r) /\ Successes(ms) # {})
          => /\ response[r].composite.defined
             /\ response[r].composite.num =
                   Weighted(MeanOver(ms, "Sharpe Ratio", Usable(ms, "Sharpe Ratio")),
                            MeanOver(ms, "Return [%]", Usable(ms, "Return [%]")),
                            MeanOver(ms, "Win Rate [%]", Usable(ms, "Win Rate [%]")),
                            MeanOver(ms, "Profit Factor", Usable(ms, "Profit Factor")))

\* C17: in a score that is defined, every mean is the mean of the usable
\* values only: a value that is None, NaN or infinite adds nothing to the sum
\* and nothing to the count, and the score is finite.
C17_UnusableValuesLeftOut ==
    \A r \in Reqs :
       LET ms == req[r].multi_stats
       IN (Answered(r) /\ response[r].composite.defined)
          => /\ response[r].composite.finite
             /\ response[r].composite.num =
                   Weighted(MeanOver(ms, "Sharpe Ratio", Usable(ms, "Sharpe Ratio")),
                            MeanOver(ms, "Return [%]", Usable(ms, "Return [%]")),
                            MeanOver(ms, "Win Rate [%]", Usable(ms, "Win Rate [%]")),
                            MeanOver(ms, "Profit Factor", Usable(ms, "Profit Factor")))

\* C17 witness: three successes; the win rate of one is +Inf, the profit
\* factor of another -Inf, the return of the third is missing, the Sharpe
\* ratio of one is NaN; the score is the one of the remaining values.
C17_Witness ==
    /\ Answered(1)
    /\ req[1].multi_stats =
          MultiStats(TRUE, [t \in Tickers |->
             IF t = "SPY" THEN GoodRun(StatsOf(Num(15), Num(100), PosInf, Num(20)))
             ELSE IF t = "BTC" THEN GoodRun(StatsOf(NaN, None, Num(400), Num(8)))
             ELSE GoodRun(StatsOf(Num(-2), Num(-50), Num(600), NegInf))])
    /\ response[1].composite.defined
    /\ response[1].composite.finite
    /\ response[1].composite.num =
          Weighted(3 * 13, 3 * 50, 3 * 1000, 3 * 28)

\* The scenario of three instruments: one gives StatsA, one fails, one
\* gives StatsC
IsScenario(multi_stats) ==
    \E a, b, c \in 1..Len(multi_stats) :
       /\ multi_stats[a].error = "" /\ multi_stats[a].stats = StatsA
       /\ multi_stats[b].error # ""
       /\ multi_stats[c].error = "" /\ multi_stats[c].stats = StatsC

\* The float nearest to 0.35425 = 1417 / 4000
F035425 == FDivInt(FromInt(1417), 4000)

\* C18: for the scenario A = {return 10, sharpe 1.5, win rate 60, profit
\* factor 2.0}, B = error, C = {return -5, sharpe -0.2, win rate 40, profit
\* factor 0.8} the composite is 0.35425 before rounding (in exact arithmetic
\* exactly, and as the float the code computes to within one unit in the last
\* place of the float nearest to 0.35425), and the value returned after
\* rounding to 4 decimal places is 0.3543, whichever kind of sum the
\* interpreter has.
C18_ScenarioScore ==
    (calc.pc \in {"composite", "rounded"} /\ IsScenario(calc.multi_stats)) =>
       /\ calc.defined
       /\ Composite(calc.multi_stats).num * 4000 = 1417 * ScoreUnit
       /\ calc.composite.sign = 0
       /\ calc.composite.exp = F035425.exp
       /\ BigCmp(calc.composite.man, F035425.man) >= 0
       /\ BigCmp(calc.composite.man, BigAdd(F035425.man, <<1>>)) <= 0
       /\ calc.pc = "rounded" => calc.composite_score = 3543

\* C18 witness: the scenario with A on SPY, the failure on BTC and C on QQQ,
\* rounded; the float is the one just above the float nearest to 0.35425
\* (0.35425000000000006), above the tie of the rounding
C18_Witness ==
    /\ calc.pc = "rounded"
    /\ calc.multi_stats =
          MultiStats(TRUE, [t \in Tickers |->
             IF t = "SPY" THEN GoodRun(StatsA)
             ELSE IF t = "BTC" THEN FailedRun ELSE GoodRun(StatsC)])
    /\ calc.composite.man = BigAdd(F035425.man, <<1>>)
    /\ calc.composite_score = 3543

-----------------------------------------------------------------------------
(* Claims about the hash ledgers, checked under SpecDedup                  *)

\* C8: of two .pine files with identical code at most one is run through the
\* transform stage.
C8_OneOfIdenticalPair ==
    \A a, b \in PineSlots :
       (a # b /\ pine_files[a] # "absent" /\ pine_files[a] = pine_files[b])
       => ~({a, b} \subseteq transformed)

\* C22: an item whose content is detected as a duplicate ends as skipped:
\* the scraper reports it as "duplicate" and saves nothing for it, and the
\* converter neither reports it as an error nor exits with a failure, and
\* passes nothing of it on to be transformed and scored.
C22_DuplicateIsSkipped ==
    /\ [](last_convert.error = DuplicateMessage =>
             (last_convert.printed # "ERROR" /\ last_convert.exit = 0))
    /\ [][/\ last_scrape' = "duplicate" => pine_files' = pine_files
          /\ (last_convert' # last_convert /\ last_convert'.error = DuplicateMessage)
                => transformed' = transformed]_vars

\* C29: when scrape_categories has finished a category, every URL that
\* scrape_category appended to the scraped list is in the state file, and
\* the file's total_scraped is the incremented one.
C29_AppendedIsPersisted ==
    last_scrape = "category_done" =>
       /\ RangeOf(scrape_run.done.scraped) \subseteq RangeOf(scraper_state.scraped)
       /\ scraper_state.total_scraped = scrape_run.done.total_scraped

\* C9: a code that is_duplicate recognises is recognised ever after, in the
\* scraper's ledger and in the converter's.
C9_LedgerOnlyGrows ==
    [][\A code \in Codes :
         /\ is_duplicate(code, v6_hashes) => is_duplicate(code, v6_hashes')
         /\ is_duplicate(code, conv_hashes) => is_duplicate(code, conv_hashes')]_vars

====
